---- MODULE Spec2Model ----
(***************************************************************************)
(* Model of the document question-answering service: the parsers           *)
(* (app/services/parser.py), the chunker and index store                   *)
(* (app/services/rag.py), the LLM wrappers (app/services/llm.py) and the   *)
(* three request handlers (app/routers/documents.py).                      *)
(*                                                                         *)
(* Text is a sequence of tokens.  A token is one character (" ", "\n",     *)
(* "a", "{", ...) or an atomic run of characters that no operation of the  *)
(* program looks inside ("[Text]", a 450-character word "L", the            *)
(* code-fence marker).                                                     *)
(* TokLen gives the number of characters a token stands for.               *)
(*                                                                         *)
(* Scores are integers: a distance or an unrounded similarity is counted   *)
(* in units of 1e-5, a score rounded to 4 decimals in units of 1e-4.       *)
(***************************************************************************)
EXTENDS Integers, Sequences, FiniteSets, TLC

\* ------------------------------------------------------------------ text

NL == "\n"
SP == " "
\* the Markdown code-fence marker (three backquotes), one token
FENCE == "FENCE"

\* str.isspace() on one token
IsWs(t) == t \in {SP, NL}

RECURSIVE LStrip(_)
LStrip(s) == IF s # <<>> /\ IsWs(Head(s)) THEN LStrip(Tail(s)) ELSE s

RECURSIVE RStrip(_)
RStrip(s) ==
    IF s # <<>> /\ IsWs(s[Len(s)]) THEN RStrip(SubSeq(s, 1, Len(s) - 1)) ELSE s

\* str.strip()
Strip(s) == RStrip(LStrip(s))

\* str.startswith(p)
StartsWith(s, p) == Len(s) >= Len(p) /\ SubSeq(s, 1, Len(p)) = p

\* sep.join(parts)
RECURSIVE Join(_, _)
Join(parts, sep) ==
    IF parts = <<>> THEN <<>>
    ELSE IF Len(parts) = 1 THEN parts[1]
    ELSE parts[1] \o sep \o Join(Tail(parts), sep)

\* positions at which sep occurs in s
Occurs(s, sep) ==
    {i \in 1..(Len(s) - Len(sep) + 1) : SubSeq(s, i, i + Len(sep) - 1) = sep}

Min(S) == CHOOSE x \in S : \A y \in S : x <= y
Max(S) == CHOOSE x \in S : \A y \in S : x >= y

\* str.split(sep) for a non-empty sep: leftmost non-overlapping occurrences
RECURSIVE Split(_, _)
Split(s, sep) ==
    IF Occurs(s, sep) = {} THEN <<s>>
    ELSE LET i == Min(Occurs(s, sep))
         IN  <<SubSeq(s, 1, i - 1)>> \o Split(SubSeq(s, i + Len(sep), Len(s)), sep)

\* the characters a token stands for
TokLen(t) ==
    CASE t = "L" -> 450
      [] t = "[Text]" -> 6
      [] t = "[Table " -> 7
      [] t = FENCE -> 3
      [] OTHER -> 1

RECURSIVE StrLen(_)
StrLen(s) == IF s = <<>> THEN 0 ELSE TokLen(Head(s)) + StrLen(Tail(s))

\* ---------------------------------------------------------------- parser

\* parse_txt applied to the file's content
RECURSIVE TxtBlocks(_)
TxtBlocks(blocks) ==
    IF blocks = <<>> THEN <<>>
    ELSE LET stripped == Strip(Head(blocks))
         IN  (IF stripped # <<>> THEN <<(<<"[Text]", NL>> \o stripped)>> ELSE <<>>)
             \o TxtBlocks(Tail(blocks))

parse_txt(content) == TxtBlocks(Split(content, <<NL, NL>>))

Digits == <<"1", "2", "3", "4">>

\* one table of a DOCX file rendered as text: cells trimmed and joined by
\* " | ", rows joined by newlines
TableRows(table) ==
    [r \in 1..Len(table) |->
        Join([c \in 1..Len(table[r]) |-> Strip(table[r][c])], <<SP, "|", SP>>)]

RECURSIVE DocxTables(_, _)
DocxTables(tables, i) ==
    IF i > Len(tables) THEN <<>>
    ELSE LET text == Join(TableRows(tables[i]), <<NL>>)
         IN  (IF Strip(text) # <<>>
                 THEN <<(<<"[Table ", Digits[i], "]", NL>> \o text)>>
                 ELSE <<>>)
             \o DocxTables(tables, i + 1)

\* DocxParagraphs without the lines after the loop: the block still open at
\* the end of the document is dropped
RECURSIVE DocxParagraphsBad(_, _, _)
DocxParagraphsBad(paras, i, current_block) ==
    IF i > Len(paras)
    THEN <<>>
    ELSE LET text == Strip(paras[i])
         IN  IF text # <<>>
             THEN DocxParagraphsBad(paras, i + 1, Append(current_block, text))
             ELSE IF current_block # <<>>
             THEN <<(<<"[Text]", NL>> \o Join(current_block, <<NL>>))>>
                  \o DocxParagraphsBad(paras, i + 1, <<>>)
             ELSE DocxParagraphsBad(paras, i + 1, current_block)

\* the paragraph loop of parse_docx from paragraph i on, with the block being
\* collected, and the emission of the block still open at the end
RECURSIVE DocxParagraphs(_, _, _)
DocxParagraphs(paras, i, current_block) ==
    IF i > Len(paras)
    THEN IF current_block # <<>>
         THEN <<(<<"[Text]", NL>> \o Join(current_block, <<NL>>))>>
         ELSE <<>>
    ELSE LET text == Strip(paras[i])
         IN  IF text # <<>>
             THEN DocxParagraphs(paras, i + 1, Append(current_block, text))
             ELSE IF current_block # <<>>
             THEN <<(<<"[Text]", NL>> \o Join(current_block, <<NL>>))>>
                  \o DocxParagraphs(paras, i + 1, <<>>)
             ELSE DocxParagraphs(paras, i + 1, current_block)

\* parse_docx applied to the document read from the file
parse_docx(doc) ==
    DocxTables(doc.tables, 1) \o DocxParagraphs(doc.paragraphs, 1, <<>>)

\* parse_document: the dispatch on the extension (the text after the last ".")
parse_document(ext, content) ==
    CASE ext = "docx" -> parse_docx(content)
      [] ext = "txt" -> parse_txt(content)

\* --------------------------------------------------------------- chunker
\* The operators below follow RecursiveCharacterTextSplitter as _splitter
\* configures it (keep_separator and strip_whitespace at their defaults, the
\* length of a text its number of characters).

\* _splitter: RecursiveCharacterTextSplitter(chunk_size, chunk_overlap, separators)
chunk_size == 1000
chunk_overlap == 200
separators == << <<NL, NL>>, <<NL>>, <<".", SP>>, <<SP>>, <<>> >>

DropEmpty(parts) == SelectSeq(parts, LAMBDA x : x # <<>>)

\* the splitter's cut of a text at one separator, each separator kept at the
\* start of the piece that follows it; the empty separator cuts between all
\* tokens
SplitKeep(text, sep) ==
    IF sep = <<>> THEN [i \in 1..Len(text) |-> <<text[i]>>]
    ELSE LET ps == Split(text, sep)
         IN  DropEmpty([i \in 1..Len(ps) |-> IF i = 1 THEN ps[1] ELSE sep \o ps[i]])

Concat(parts) == Join(parts, <<>>)

RECURSIVE PartsLen(_)
PartsLen(parts) == IF parts = <<>> THEN 0 ELSE StrLen(Head(parts)) + PartsLen(Tail(parts))

\* the splitter's overlap loop: pieces leave the front of the chunk just
\* emitted until what is left is within the overlap and the next piece fits
RECURSIVE DropFront(_, _)
DropFront(current_doc, len) ==
    LET total == PartsLen(current_doc)
    IN  IF total > chunk_overlap \/ (total + len > chunk_size /\ total > 0)
        THEN DropFront(Tail(current_doc), len)
        ELSE current_doc

JoinDocs(current_doc) ==
    LET text == Strip(Concat(current_doc))
    IN  IF text = <<>> THEN <<>> ELSE <<text>>

\* the splitter's merge of small pieces into chunks of at most chunk_size
\* characters (the separator is kept in the pieces, so it is joined with "")
RECURSIVE MergeSplits(_, _)
MergeSplits(splits, current_doc) ==
    IF splits = <<>> THEN JoinDocs(current_doc)
    ELSE LET d == Head(splits)
             len == StrLen(d)
         IN  IF PartsLen(current_doc) + len > chunk_size /\ current_doc # <<>>
             THEN JoinDocs(current_doc)
                  \o MergeSplits(Tail(splits), Append(DropFront(current_doc, len), d))
             ELSE MergeSplits(Tail(splits), Append(current_doc, d))

\* the first separator of seps that occurs in the text (the last one if none)
SepIndex(text, seps) ==
    LET hits == {i \in 1..Len(seps) : seps[i] = <<>> \/ Occurs(text, seps[i]) # {}}
    IN  IF hits = {} THEN Len(seps) ELSE Min(hits)

\* the splitter's recursive split of one text
RECURSIVE SplitText(_, _)
RECURSIVE SplitPieces(_, _, _)
SplitText(text, seps) ==
    LET k == SepIndex(text, seps)
    IN  SplitPieces(SplitKeep(text, seps[k]), SubSeq(seps, k + 1, Len(seps)), <<>>)

SplitPieces(splits, new_separators, good_splits) ==
    IF splits = <<>> THEN MergeSplits(good_splits, <<>>)
    ELSE LET s == Head(splits)
         IN  IF StrLen(s) < chunk_size
             THEN SplitPieces(Tail(splits), new_separators, Append(good_splits, s))
             ELSE MergeSplits(good_splits, <<>>)
                  \o (IF new_separators = <<>> THEN <<s>> ELSE SplitText(s, new_separators))
                  \o SplitPieces(Tail(splits), new_separators, <<>>)

\* _splitter.split_documents(docs): the chunks of every section, in order
RECURSIVE split_documents(_)
split_documents(sections) ==
    IF sections = <<>> THEN <<>>
    ELSE SplitText(Head(sections), separators) \o split_documents(Tail(sections))

\* ----------------------------------------------------------------- index

\* identifiers uuid4().hex[:12] can yield, in the order they are generated
MaxUploads == 2
\* an identifier that no upload returns; "doc_" + GhostId is a legal
\* collection name
GhostId == MaxUploads + 1
\* stands for the empty identifier: "doc_" is not a legal collection name (it
\* must end with a letter or digit), so the index store rejects it
BadId == -1

ValidCollectionName(doc_id) == doc_id # BadId

\* _get_vectorstore: the Chroma constructor opens the collection, creating an
\* empty one when there is none of that name (get_or_create_collection)
get_vectorstore(colls, doc_id) ==
    IF doc_id \in DOMAIN colls THEN colls
    ELSE [d \in DOMAIN colls \cup {doc_id} |-> IF d = doc_id THEN <<>> ELSE colls[d]]

\* StampChunks counting from 1 (enumerate(split_docs, start=1))
StampChunksBad(split_docs, filename, doc_id) ==
    [i \in 1..Len(split_docs) |->
        [page_content |-> split_docs[i],
         metadata |-> [source |-> filename, doc_id |-> doc_id,
                       filename |-> filename, chunk_index |-> i]]]

\* the loop of store_chunks that stamps every chunk with its position
StampChunks(split_docs, filename, doc_id) ==
    [i \in 1..Len(split_docs) |->
        [page_content |-> split_docs[i],
         metadata |-> [source |-> filename, doc_id |-> doc_id,
                       filename |-> filename, chunk_index |-> i - 1]]]

\* Chroma.from_documents: the documents are added to the collection doc_<id>
from_documents(colls, docs, doc_id) ==
    LET opened == get_vectorstore(colls, doc_id)
    IN  [opened EXCEPT ![doc_id] = @ \o docs]

\* store_chunks(sections, filename) with the identifier uuid4 yields:
\* the index afterwards and the number of chunks
store_chunks(colls, sections, filename, doc_id) ==
    LET split_docs == split_documents(sections)
    IN  [colls |-> from_documents(colls, StampChunks(split_docs, filename, doc_id), doc_id),
         doc_id |-> doc_id,
         num_chunks |-> Len(split_docs)]

\* round(x, 4) of a value counted in 1e-5, the result counted in 1e-4 (a tie
\* goes to the even neighbour; the values drawn below produce none)
Round4(x) ==
    LET q == x \div 10
        r == x % 10
    IN  IF r < 5 THEN q
        ELSE IF r > 5 THEN q + 1
        ELSE IF q % 2 = 0 THEN q ELSE q + 1

\* round(total / n, 4) of a sum of n scores counted in 1e-4
RoundDiv(total, n) ==
    LET q == total \div n
        r == total % n
    IN  IF 2 * r < n THEN q
        ELSE IF 2 * r > n THEN q + 1
        ELSE IF q % 2 = 0 THEN q ELSE q + 1

top_k == 3

\* retrieve: the loop over the results of similarity_search_with_score;
\* results[i] = [pos, distance], pos the position of the chunk in the
\* collection
retrieve(coll, results) ==
    [i \in 1..Len(results) |->
        LET doc == coll[results[i].pos]
            similarity == 100000 - results[i].distance
        IN  [text |-> doc.page_content,
             score |-> Round4(similarity),
             chunk_index |-> doc.metadata.chunk_index]]

\* paired.sort(key=chunk_index): a stable insertion sort
RECURSIVE SortByIndex(_)
SortByIndex(docs) ==
    IF docs = <<>> THEN <<>>
    ELSE LET rest == SortByIndex(SubSeq(docs, 1, Len(docs) - 1))
             last == docs[Len(docs)]
             before == SelectSeq(rest, LAMBDA x :
                           x.metadata.chunk_index <= last.metadata.chunk_index)
             after == SelectSeq(rest, LAMBDA x :
                           x.metadata.chunk_index > last.metadata.chunk_index)
         IN  before \o <<last>> \o after

\* get_full_text applied to the opened collection
get_full_text(coll) ==
    LET paired == SortByIndex(coll)
    IN  Join([i \in 1..Len(paired) |-> paired[i].page_content], <<NL, NL>>)

\* ------------------------------------------------------------------- llm

RECURSIVE SumScores(_)
SumScores(chunks) ==
    IF chunks = <<>> THEN 0 ELSE Head(chunks).score + SumScores(Tail(chunks))

\* ask_question reporting the best score, not the mean, as confidence
ask_questionBad(retrieved_chunks, answer) ==
    [answer |-> Strip(answer),
     source_null |-> FALSE,
     source_text |-> IF retrieved_chunks # <<>> THEN retrieved_chunks[1].text ELSE <<>>,
     confidence_score |-> IF retrieved_chunks # <<>>
                          THEN Max({retrieved_chunks[i].score :
                                       i \in 1..Len(retrieved_chunks)})
                          ELSE 0]

\* ask_question, given the text the chain returns
ask_question(retrieved_chunks, answer) ==
    [answer |-> Strip(answer),
     source_null |-> FALSE,
     source_text |-> IF retrieved_chunks # <<>> THEN retrieved_chunks[1].text ELSE <<>>,
     confidence_score |-> IF retrieved_chunks # <<>>
                          THEN RoundDiv(SumScores(retrieved_chunks), Len(retrieved_chunks))
                          ELSE 0]

\* StripFences dropping only the lines that are the fence marker alone, so
\* that an opening fence with a language tag stays
StripFencesBad(raw) ==
    IF StartsWith(raw, <<FENCE>>)
    THEN LET lines == Split(raw, <<NL>>)
             kept == SelectSeq(lines, LAMBDA l : Strip(l) # <<FENCE>>)
         IN  Join(kept, <<NL>>)
    ELSE raw

\* the lines of extract_structured that drop the code-fence lines
StripFences(raw) ==
    IF StartsWith(raw, <<FENCE>>)
    THEN LET lines == Split(raw, <<NL>>)
             kept == SelectSeq(lines, LAMBDA l : ~StartsWith(Strip(l), <<FENCE>>))
         IN  Join(kept, <<NL>>)
    ELSE raw

\* JSON texts over the tokens "{", "}", ",", "k" (one "name": value member)
\* and "n" (the literal null); white space may stand between any two tokens
NoWs(text) == SelectSeq(text, LAMBDA t : ~IsWs(t))

IsObject(c) ==
    /\ Len(c) >= 2
    /\ c[1] = "{"
    /\ c[Len(c)] = "}"
    /\ LET inner == SubSeq(c, 2, Len(c) - 1)
       IN  \/ inner = <<>>
           \/ /\ Len(inner) % 2 = 1
              /\ \A i \in 1..Len(inner) : inner[i] = (IF i % 2 = 1 THEN "k" ELSE ",")

\* json.loads succeeds
IsJson(text) == NoWs(text) = <<"n">> \/ IsObject(NoWs(text))

FallbackError == "Failed to parse LLM JSON output"

\* json.loads without the except clause: the decode error leaves the function
json_or_fallbackBad(raw) ==
    IF IsJson(raw)
    THEN [raised |-> FALSE, parsed |-> TRUE, value |-> NoWs(raw)]
    ELSE [raised |-> TRUE, parsed |-> FALSE]

\* the try/except around json.loads: the parsed value, or the fallback mapping
json_or_fallback(raw) ==
    IF IsJson(raw)
    THEN [raised |-> FALSE, parsed |-> TRUE, value |-> NoWs(raw)]
    ELSE [raised |-> FALSE, parsed |-> FALSE, raw_response |-> raw, error |-> FallbackError]

\* extract_structured, given the text the chain returns
extract_structured(llm_text) == json_or_fallback(StripFences(Strip(llm_text)))

\* --------------------------------------------------------------- service

VARIABLES
    files,        \* UPLOAD_DIR: file name -> content of the file
    collections,  \* CHROMA_PERSIST_DIR: identifier -> documents of collection doc_<id>
    issued,       \* the identifiers successful uploads have returned
    uuids,        \* how many identifiers uuid4 has generated
    resp,         \* the response to the last request
    trace,        \* what the last request was given and which services it called
    reqs,         \* the upload requests in flight, step by step
    docx_in,      \* the DOCX document handed to parse_docx
    docx_out      \* what parse_docx returned for it

vars == <<files, collections, issued, uuids, resp, trace, reqs, docx_in, docx_out>>

EmptyMap == [d \in {} |-> <<>>]

Put(map, key, value) ==
    [k \in DOMAIN map \cup {key} |-> IF k = key THEN value ELSE map[k]]

SUPPORTED_EXTENSIONS == {<<".", "pdf">>, <<".", "docx">>, <<".", "txt">>}
\* SIMILARITY_THRESHOLD = 0.3, counted in 1e-4
SIMILARITY_THRESHOLD == 3000

\* str.lower() on one token
LowerTok(t) ==
    CASE t = "TXT" -> "txt"
      [] t = "EXE" -> "exe"
      [] OTHER -> t

Lower(s) == [i \in 1..Len(s) |-> LowerTok(s[i])]

\* os.path.splitext(filename)[1]: from the last "." on, if it is not leading
splitext(filename) ==
    LET dots == {i \in 1..Len(filename) : filename[i] = "."}
    IN  IF dots = {} \/ Max(dots) = 1 THEN <<>>
        ELSE SubSeq(filename, Max(dots), Len(filename))

\* path.rsplit(".", 1)[-1].lower() of a path whose file name has an extension
PathExt(filename) == LowerTok(filename[Len(filename)])

\* the files uploaded: a file name and a body of the kind its extension names
TxtBodies ==
    { <<"L", NL, "L", NL, "L", NL, NL, NL, "b", SP>>,
      <<SP, NL, NL, NL>> }

DocxBodies ==
    { [tables |-> << << <<<<"a">>, <<SP, "b">>>> >> >>,
       paragraphs |-> << <<"a">>, <<"b", SP>> >>] }

UploadInputs ==
    [filename : {<<"x", ".", "TXT">>}, body : TxtBodies]
    \cup [filename : {<<"d", ".", "docx">>}, body : DocxBodies]
    \cup [filename : {<<>>, <<"n", ".", "exe">>, <<".", "txt">>}, body : {<<"a">>}]

\* the distances the index reports, counted in 1e-5 (similarity = 1 - distance:
\* 0.60004, 0.29996, 0.25, -0.2); none has a fifth decimal of 5, where the
\* binary value of the float decides the rounding
Distances == {39996, 70004, 75000, 120000}

\* the distances of n results, nearest first
AscDistances ==
    [n \in 0..top_k |->
        {ds \in [1..n -> Distances] : \A i, j \in 1..n : i < j => ds[i] <= ds[j]}]

\* what similarity_search_with_score(query, k) can return on a collection: at
\* most k of its documents, nearest first
SearchResults(coll, k) ==
    LET n == IF Len(coll) < k THEN Len(coll) ELSE k
        picks == {ps \in [1..n -> 1..Len(coll)] :
                     \A i, j \in 1..n : i < j => ps[i] # ps[j]}
    IN  {[i \in 1..n |-> [pos |-> ps[i], distance |-> ds[i]]] :
            ps \in picks, ds \in AscDistances[n]}

\* texts the ask chain returns
AskOutputs == {<<SP, "a", SP, "b", NL>>}

\* a JSON object wrapped in code-fence lines, with or without a language tag
Wrap(tag, json) == <<FENCE>> \o tag \o <<NL>> \o json \o <<NL, FENCE>>

JsonObjects ==
    {<<"{", "k", "}">>, <<"{", NL, SP, "k", ",", NL, SP, "k", NL, "}">>, <<"{", "}">>}
FenceTags == {<<>>, <<"json">>}

\* texts the extract chain returns: JSON objects, bare and wrapped in fences
\* in several ways, other JSON, and texts that are not JSON
ExtractOutputs ==
    JsonObjects
    \cup {Wrap(tag, j) : tag \in FenceTags, j \in JsonObjects}
    \cup {<<NL>> \o Wrap(<<"json">>, <<"{", "k", "}">>) \o <<SP, NL>>}
    \cup {<<FENCE, NL, "{", "k", "}", NL, SP, FENCE, SP>>}
    \cup { <<"n">>, <<>>, <<"x">>, <<"{", "k">>, <<"{", "k", ",", "}">>,
           <<FENCE, "{", "k", "}", FENCE>>,
           Wrap(<<>>, <<"x">>),
           <<"x", NL>> \o Wrap(<<>>, <<"{", "k", "}">>) }

\* the texts of the extract chain drawn where the handlers run together
FewExtractOutputs ==
    {<<"{", "k", "}">>, Wrap(<<"json">>, <<"{", "k", "}">>), <<"x">>}

Idle == [pc |-> "idle"]

Init ==
    /\ files = EmptyMap
    /\ collections = EmptyMap
    /\ issued = {}
    /\ uuids = 0
    /\ resp = [op |-> "none"]
    /\ trace = [op |-> "none"]
    /\ reqs = <<>>
    /\ docx_in = [tables |-> <<>>, paragraphs |-> <<>>]
    /\ docx_out = [done |-> FALSE, sections |-> <<>>]

\* POST /upload, the whole handler
Upload(inp) ==
    LET filename == inp.filename
        ext == Lower(splitext(filename))
    IN  /\ uuids < MaxUploads
        /\ trace' = [op |-> "upload"]
        /\ UNCHANGED <<reqs, docx_in, docx_out>>
        /\ IF filename = <<>> \/ ext \notin SUPPORTED_EXTENSIONS
           THEN /\ resp' = [op |-> "upload", status |-> 400]
                /\ UNCHANGED <<files, collections, issued, uuids>>
           ELSE LET saved == Put(files, filename, inp.body)
                    sections == parse_document(PathExt(filename), saved[filename])
                IN  /\ files' = saved
                    /\ IF sections = <<>>
                       THEN /\ resp' = [op |-> "upload", status |-> 422]
                            /\ UNCHANGED <<collections, issued, uuids>>
                       ELSE LET stored == store_chunks(collections, sections,
                                                       filename, uuids + 1)
                            IN  /\ uuids' = uuids + 1
                                /\ collections' = stored.colls
                                /\ issued' = issued \cup {stored.doc_id}
                                /\ resp' = [op |-> "upload", status |-> 200,
                                            doc_id |-> stored.doc_id,
                                            filename |-> filename,
                                            num_chunks |-> stored.num_chunks]

\* the identifiers a request can name
RequestIds == issued \cup {GhostId, BadId}

\* BestScore taking the smallest score (min for max)
BestScoreMin(chunks) ==
    IF chunks # <<>> THEN Min({chunks[i].score : i \in 1..Len(chunks)}) ELSE 0

\* best_score: the largest score of the chunks retrieve returned, 0.0 for none
BestScore(chunks) ==
    IF chunks # <<>> THEN Max({chunks[i].score : i \in 1..Len(chunks)}) ELSE 0

\* the branch of ask taken on the best score
AskGate(best_score) == best_score < SIMILARITY_THRESHOLD

\* POST /ask, the whole handler; results is what the similarity search
\* returns and answer what the chain returns if it is invoked
Ask(doc_id, results, answer) ==
    /\ UNCHANGED <<files, issued, uuids, reqs, docx_in, docx_out>>
    /\ IF ~ValidCollectionName(doc_id)
       THEN /\ resp' = [op |-> "ask", status |-> 404]
            /\ trace' = [op |-> "ask", doc_id |-> doc_id, similarities |-> <<>>,
                         chunks |-> <<>>, full_text_calls |-> 0, llm_calls |-> 0,
                         llm_text |-> <<>>]
            /\ UNCHANGED collections
       ELSE LET opened == get_vectorstore(collections, doc_id)
                chunks == retrieve(opened[doc_id], results)
                best_score == BestScore(chunks)
                sims == [i \in 1..Len(results) |-> 100000 - results[i].distance]
            IN  /\ collections' = opened
                /\ IF AskGate(best_score)
                   THEN /\ resp' = [op |-> "ask", status |-> 200,
                                    answer |-> <<"Not found in document.">>,
                                    source_null |-> TRUE,
                                    source_text |-> <<>>,
                                    confidence_score |-> best_score]
                        /\ trace' = [op |-> "ask", doc_id |-> doc_id,
                                     similarities |-> sims, chunks |-> chunks,
                                     full_text_calls |-> 0, llm_calls |-> 0,
                                     llm_text |-> <<>>]
                   ELSE /\ resp' = [op |-> "ask", status |-> 200]
                                   @@ ask_question(chunks, answer)
                        /\ trace' = [op |-> "ask", doc_id |-> doc_id,
                                     similarities |-> sims, chunks |-> chunks,
                                     full_text_calls |-> 1, llm_calls |-> 1,
                                     llm_text |-> answer]

\* POST /extract, the whole handler; llm_text is what the chain returns
Extract(doc_id, llm_text) ==
    /\ UNCHANGED <<files, issued, uuids, reqs, docx_in, docx_out>>
    /\ IF ~ValidCollectionName(doc_id)
       THEN /\ resp' = [op |-> "extract", status |-> 404]
            /\ trace' = [op |-> "extract", doc_id |-> doc_id,
                         full_text_calls |-> 1, llm_calls |-> 0, llm_text |-> <<>>]
            /\ UNCHANGED collections
       ELSE LET opened == get_vectorstore(collections, doc_id)
            IN  /\ collections' = opened
                /\ resp' = [op |-> "extract", status |-> 200,
                            result |-> extract_structured(llm_text)]
                /\ trace' = [op |-> "extract", doc_id |-> doc_id,
                             full_text_calls |-> 1, llm_calls |-> 1,
                             llm_text |-> llm_text]

Next ==
    \/ \E inp \in UploadInputs : Upload(inp)
    \/ \E doc_id \in RequestIds :
         \E results \in SearchResults(get_vectorstore(collections, doc_id)[doc_id], top_k) :
           \E answer \in AskOutputs : Ask(doc_id, results, answer)
    \/ \E doc_id \in RequestIds : \E llm_text \in FewExtractOutputs : Extract(doc_id, llm_text)

Spec == Init /\ [][Next]_vars

\* ---------------------------------------------------- concurrent uploads

\* Two upload requests served at the same time (a worker per request, all
\* workers sharing UPLOAD_DIR and CHROMA_PERSIST_DIR), a request advancing
\* from one blocking call of the handler to the next.
NumReqs == 2
Reqs == 1..NumReqs

ConcInputs ==
    [filename : {<<"x", ".", "txt">>, <<"y", ".", "txt">>},
     body : {<<"a">>, <<"b", NL, NL, "a">>, <<NL>>}]
    \cup [filename : {<<>>, <<"n", ".", "exe">>}, body : {<<"a">>}]

InitConc ==
    /\ files = EmptyMap
    /\ collections = EmptyMap
    /\ issued = {}
    /\ uuids = 0
    /\ resp = [op |-> "none"]
    /\ trace = [op |-> "none"]
    /\ reqs = [r \in Reqs |-> Idle]
    /\ docx_in = [tables |-> <<>>, paragraphs |-> <<>>]
    /\ docx_out = [done |-> FALSE, sections |-> <<>>]

\* upload up to and including the copy of the request's file to dest_path
UploadSave(r, inp) ==
    LET filename == inp.filename
        ext == Lower(splitext(filename))
    IN  /\ reqs[r].pc = "idle"
        /\ UNCHANGED <<collections, issued, uuids, resp, trace, docx_in, docx_out>>
        /\ IF filename = <<>> \/ ext \notin SUPPORTED_EXTENSIONS
           THEN /\ reqs' = [reqs EXCEPT ![r] =
                               [pc |-> "done", filename |-> filename,
                                body |-> inp.body, status |-> 400]]
                /\ UNCHANGED files
           ELSE /\ files' = Put(files, filename, inp.body)
                /\ reqs' = [reqs EXCEPT ![r] =
                               [pc |-> "saved", filename |-> filename, body |-> inp.body]]

\* sections = parse_document(dest_path): reads the file now at dest_path
UploadParse(r) ==
    /\ reqs[r].pc = "saved"
    /\ reqs' = [reqs EXCEPT ![r] =
                   [pc |-> "parsed", filename |-> reqs[r].filename, body |-> reqs[r].body,
                    sections |-> parse_document(PathExt(reqs[r].filename),
                                                files[reqs[r].filename])]]
    /\ UNCHANGED <<files, collections, issued, uuids, resp, trace, docx_in, docx_out>>

\* the rest of upload: the 422 for no sections, or store_chunks and the response
UploadStore(r) ==
    /\ reqs[r].pc = "parsed"
    /\ UNCHANGED <<files, resp, trace, docx_in, docx_out>>
    /\ IF reqs[r].sections = <<>>
       THEN /\ reqs' = [reqs EXCEPT ![r] =
                           [pc |-> "done", filename |-> reqs[r].filename,
                            body |-> reqs[r].body, status |-> 422]]
            /\ UNCHANGED <<collections, issued, uuids>>
       ELSE LET stored == store_chunks(collections, reqs[r].sections,
                                       reqs[r].filename, uuids + 1)
            IN  /\ uuids' = uuids + 1
                /\ collections' = stored.colls
                /\ issued' = issued \cup {stored.doc_id}
                /\ reqs' = [reqs EXCEPT ![r] =
                               [pc |-> "done", filename |-> reqs[r].filename,
                                body |-> reqs[r].body, status |-> 200,
                                doc_id |-> stored.doc_id,
                                num_chunks |-> stored.num_chunks]]

NextConc ==
    \/ \E r \in Reqs : \E inp \in ConcInputs : UploadSave(r, inp)
    \/ \E r \in Reqs : UploadParse(r)
    \/ \E r \in Reqs : UploadStore(r)

SpecConc == InitConc /\ [][NextConc]_vars

\* -------------------------------------------------------------- extract

\* POST /extract on a server that holds stored documents, for every text of
\* ExtractOutputs
InitExtract ==
    /\ \E inp \in UploadInputs :
          LET sections == parse_document(PathExt(inp.filename), inp.body)
              stored == store_chunks(EmptyMap, sections, inp.filename, 1)
          IN  /\ Lower(splitext(inp.filename)) \in SUPPORTED_EXTENSIONS
              /\ sections # <<>>
              /\ files = Put(EmptyMap, inp.filename, inp.body)
              /\ collections = stored.colls
    /\ issued = {1}
    /\ uuids = 1
    /\ resp = [op |-> "none"]
    /\ trace = [op |-> "none"]
    /\ reqs = <<>>
    /\ docx_in = [tables |-> <<>>, paragraphs |-> <<>>]
    /\ docx_out = [done |-> FALSE, sections |-> <<>>]

NextExtract ==
    \E doc_id \in RequestIds : \E llm_text \in ExtractOutputs : Extract(doc_id, llm_text)

SpecExtract == InitExtract /\ [][NextExtract]_vars

\* -------------------------------------------------------------- parse_docx

MaxParas == 4

ParaTexts == {<<>>, <<SP>>, <<"a">>, <<SP, "b", SP>>}

ParaSeqs == UNION {[1..n -> ParaTexts] : n \in 0..MaxParas}

TableSeqs == {<<>>, << << <<<<"a", SP>>, <<>>>> >> >>}

InitDocx ==
    /\ files = EmptyMap
    /\ collections = EmptyMap
    /\ issued = {}
    /\ uuids = 0
    /\ resp = [op |-> "none"]
    /\ trace = [op |-> "none"]
    /\ reqs = <<>>
    /\ docx_in \in [tables : TableSeqs, paragraphs : ParaSeqs]
    /\ docx_out = [done |-> FALSE, sections |-> <<>>]

ParseDocx ==
    /\ ~docx_out.done
    /\ docx_out' = [done |-> TRUE, sections |-> parse_docx(docx_in)]
    /\ UNCHANGED <<files, collections, issued, uuids, resp, trace, reqs, docx_in>>

NextDocx == ParseDocx

SpecDocx == InitDocx /\ [][NextDocx]_vars

\* ---------------------------------------------------------------- claims

AskAnswered == resp.op = "ask" /\ resp.status = 200

\* the largest of the scores retrieve returned, 0 when it returned none
MaxScore ==
    LET scores == {trace.chunks[i].score : i \in 1..Len(trace.chunks)}
    IN  IF scores = {} THEN 0 ELSE CHOOSE m \in scores : \A x \in scores : x <= m

\* the largest unrounded similarity (in 1e-5), 0 when there is no result
MaxSimilarity ==
    LET sims == {trace.similarities[i] : i \in 1..Len(trace.similarities)}
    IN  IF sims = {} THEN 0 ELSE CHOOSE m \in sims : \A x \in sims : x <= m

\* C1: ask and extract on an identifier that no upload returned answer 404
\* (DocumentNotFound): no answer payload, and the LLM is not invoked.
C1_UnknownIdNotFound ==
    (resp.op \in {"ask", "extract"} /\ trace.doc_id \notin issued)
        => (resp.status = 404 /\ trace.llm_calls = 0)

\* C2: an ask whose best retrieved score is below 0.3 (0 for no results)
\* answers exactly "Not found in document." with a null source_text and that
\* best score as confidence, and calls neither full_text nor the LLM.
C2_ConfidenceGate ==
    (AskAnswered /\ MaxScore < 3000)
        => /\ resp.answer = <<"Not found in document.">>
           /\ resp.source_null
           /\ resp.confidence_score = MaxScore
           /\ trace.full_text_calls = 0
           /\ trace.llm_calls = 0

\* C2 happens: a stored document, several results of different scores, all
\* below the threshold
C2_Witness ==
    /\ AskAnswered
    /\ trace.doc_id \in issued
    /\ Len(trace.chunks) >= 2
    /\ MaxScore = 2500
    /\ \E i \in 1..Len(trace.chunks) : trace.chunks[i].score < 2500
    /\ resp.confidence_score = 2500

\* C3: the LLM path is taken exactly when the largest unrounded similarity
\* is at least 0.3; rounding never changes the decision.
C3_GateOnUnrounded ==
    AskAnswered => (trace.llm_calls = 1 <=> MaxSimilarity >= 30000)

\* the text with the white space at both ends removed, said without Strip
IsTrimOf(t, text) ==
    /\ t = <<>> \/ (~IsWs(t[1]) /\ ~IsWs(t[Len(t)]))
    /\ \E i \in 0..Len(text) : \E j \in i..Len(text) :
          /\ t = SubSeq(text, i + 1, j)
          /\ \A k \in (1..i) \cup ((j + 1)..Len(text)) : IsWs(text[k])

\* c is the mean of the scores rounded to the nearest 1e-4
IsRoundedMean(c, chunks) ==
    LET n == Len(chunks)
        total == SumScores(chunks)
        diff == IF n * c >= total THEN n * c - total ELSE total - n * c
    IN  n > 0 /\ 2 * diff <= n

\* C4: an ask that passes the gate answers with the text of the first,
\* top-ranked chunk as a non-null source_text, the rounded mean of all
\* returned scores as confidence, and the trimmed LLM output as answer.
C4_GroundedAnswer ==
    (AskAnswered /\ MaxScore >= 3000)
        => /\ ~resp.source_null
           /\ resp.source_text = trace.chunks[1].text
           /\ \A i \in 1..Len(trace.chunks) :
                 trace.chunks[1].score >= trace.chunks[i].score
           /\ \E i \in 1..Len(collections[trace.doc_id]) :
                 LET doc == collections[trace.doc_id][i]
                 IN  /\ doc.page_content = resp.source_text
                     /\ doc.metadata.chunk_index = trace.chunks[1].chunk_index
           /\ IsRoundedMean(resp.confidence_score, trace.chunks)
           /\ IsTrimOf(resp.answer, trace.llm_text)

\* C4 happens: three results of three different scores, the first not the
\* first chunk of the document, and an LLM output with white space around it
C4_Witness ==
    /\ AskAnswered
    /\ trace.llm_calls = 1
    /\ Len(trace.chunks) = 3
    /\ trace.chunks[1].score = 6000
    /\ trace.chunks[2].score = 3000
    /\ trace.chunks[3].score = 2500
    /\ trace.chunks[1].chunk_index = 2
    /\ resp.confidence_score = 3833
    /\ resp.answer # trace.llm_text

\* C5: the indexes are exactly those of the identifiers successful uploads
\* returned; ask and extract create none.
C5_OneIndexPerUpload == DOMAIN collections = issued

\* C6: the chunk_index values of a stored document are 0..N-1, each once, in
\* the chunker's output order over the whole document, N being the
\* chunk_count the upload returned.
C6_ContiguousIndexes ==
    /\ \A d \in issued :
          LET coll == collections[d]
          IN  /\ coll # <<>>
              /\ \A i \in 1..Len(coll) : coll[i].metadata.chunk_index = i - 1
    /\ (resp.op = "upload" /\ resp.status = 200)
          => LET coll == collections[resp.doc_id]
                 chunks == split_documents(
                     parse_document(PathExt(resp.filename), files[resp.filename]))
             IN  /\ Len(coll) = resp.num_chunks
                 /\ Len(chunks) = resp.num_chunks
                 /\ \A i \in 1..Len(coll) : coll[i].page_content = chunks[i]

\* C6 happens: a second upload, of a document of two sections and three chunks
C6_Witness ==
    /\ resp.op = "upload"
    /\ resp.status = 200
    /\ resp.doc_id = 2
    /\ resp.num_chunks = 3
    /\ Len(parse_document(PathExt(resp.filename), files[resp.filename])) = 2
    /\ collections[2][3].metadata.chunk_index = 2

ExtractAnswered == resp.op = "extract" /\ resp.status = 200

\* C7: when the text of the LLM (its code-fence lines dropped) is not valid
\* JSON, extract does not fail: it returns the mapping of raw_response, the
\* text that did not parse, and error, the fixed message.
C7_ParseFallback ==
    (resp.op = "extract" /\ trace.llm_calls = 1
         /\ ~IsJson(StripFences(Strip(trace.llm_text))))
        => /\ resp.status = 200
           /\ ~resp.result.raised
           /\ ~resp.result.parsed
           /\ DOMAIN resp.result = {"raised", "parsed", "raw_response", "error"}
           /\ resp.result.raw_response = StripFences(Strip(trace.llm_text))
           /\ resp.result.error = "Failed to parse LLM JSON output"

\* C7 happens: a fenced text that is not JSON
C7_Witness ==
    /\ ExtractAnswered
    /\ trace.llm_text = Wrap(<<>>, <<"x">>)
    /\ resp.result.raw_response = <<"x">>

\* the ways a JSON object is wrapped in code-fence lines
Wrappings(json) ==
    {pre \o Wrap(tag, json) \o post :
        tag \in FenceTags, pre \in {<<>>, <<NL>>}, post \in {<<>>, <<SP, NL>>}}

\* C8: extraction of a JSON object wrapped in code-fence lines returns what
\* extraction of the object itself returns, the parsed object.
C8_FenceTransparent ==
    \A json \in JsonObjects :
        (ExtractAnswered /\ trace.llm_text \in Wrappings(json))
            => /\ resp.result = extract_structured(json)
               /\ resp.result.parsed
               /\ resp.result.value = NoWs(json)

\* C8 happens: an object of several lines in a fence with a language tag
C8_Witness ==
    /\ ExtractAnswered
    /\ trace.llm_text = Wrap(<<"json">>, <<"{", NL, SP, "k", ",", NL, SP, "k", NL, "}">>)
    /\ resp.result.parsed

\* C9: whatever the interleaving of two uploads, each one that succeeds
\* returns its own identifier, whose index holds exactly the chunks of the
\* file that request carried.
C9_UploadsIsolated ==
    \A r \in Reqs :
        (reqs[r].pc = "done" /\ reqs[r].status = 200)
            => /\ \A q \in Reqs \ {r} :
                     (reqs[q].pc = "done" /\ reqs[q].status = 200)
                         => reqs[q].doc_id # reqs[r].doc_id
               /\ LET coll == collections[reqs[r].doc_id]
                      own == split_documents(
                          parse_document(PathExt(reqs[r].filename), reqs[r].body))
                  IN  /\ Len(coll) = Len(own)
                      /\ \A i \in 1..Len(coll) : coll[i].page_content = own[i]

\* the paragraphs of the document, trimmed
Trimmed(i) == Strip(docx_in.paragraphs[i])

\* the paragraphs at which a run of non-empty paragraphs starts
RunStarts ==
    {i \in 1..Len(docx_in.paragraphs) :
        Trimmed(i) # <<>> /\ (i = 1 \/ Trimmed(i - 1) = <<>>)}

\* the last paragraph of the run that starts at i
RunEnd(i) ==
    CHOOSE j \in i..Len(docx_in.paragraphs) :
        /\ \A k \in i..j : Trimmed(k) # <<>>
        /\ j = Len(docx_in.paragraphs) \/ Trimmed(j + 1) = <<>>

\* the m-th run start
NthStart(m) == CHOOSE i \in RunStarts : Cardinality({j \in RunStarts : j < i}) = m - 1

TextSections == SelectSeq(docx_out.sections, LAMBDA sec : sec[1] = "[Text]")

\* C10: parse_docx emits one "Text" section per maximal run of non-empty
\* paragraphs, in order, holding the run's trimmed paragraphs joined by
\* newlines; the run open at the end is emitted too.
C10_DocxRuns ==
    docx_out.done
        => /\ Len(TextSections) = Cardinality(RunStarts)
           /\ \A m \in 1..Len(TextSections) :
                 LET i == NthStart(m)
                 IN  TextSections[m] =
                         <<"[Text]", NL>>
                         \o Join([k \in 1..(RunEnd(i) - i + 1) |-> Trimmed(i + k - 1)],
                                 <<NL>>)
           /\ \A m \in 1..Len(docx_out.sections) :
                 Len(docx_out.sections[m]) > 2

\* C10 happens: a run of two paragraphs, an empty paragraph, and a run that
\* is still open at the end of the document
C10_Witness ==
    /\ docx_out.done
    /\ Len(docx_in.paragraphs) = 4
    /\ Trimmed(1) # <<>>
    /\ Trimmed(2) # <<>>
    /\ Trimmed(3) = <<>>
    /\ Trimmed(4) # <<>>
    /\ Len(TextSections) = 2

====
